---- MODULE Spec2Model ----
(***************************************************************************)
(* Model of the channel lifecycle of gomavlib: newChannel and Channel.run  *)
(* (channel.go).  One channel is modelled together with the parts of its   *)
(* environment it synchronises with: the consumer of the unbuffered event  *)
(* bus (n.eventsOut), the hub that receives on n.channelClose and closes   *)
(* ch.terminate, the callers that send on ch.writec, and the peer of the   *)
(* raw stream.  Channels share nothing but the bus, so one channel is      *)
(* enough for the channel-scoped properties.                               *)
(*                                                                         *)
(* Every Go channel operation is one atomic step.  A send on an unbuffered *)
(* channel is a rendezvous: the step happens when the receiver takes the   *)
(* value, and the sender is blocked until then.                            *)
(***************************************************************************)
EXTENDS Integers, Sequences, FiniteSets, TLC

\* ---- bounds -------------------------------------------------------------
\* longest sequence of read results the stream delivers before it blocks
MaxReads == 2
\* number of callers that send one outbound item each on ch.writec
NumSenders == 2
\* longest sequence of read results in the behaviours checked for liveness
MaxLiveReads == 1

Senders == 1..NumSenders

\* A result of parser.Read other than the fatal error is a recoverable
\* *ParserError, written Bad, or a decoded frame, written as its payload:
\* the i-th result of a stream, when it is a frame, has the payload i.
Bad == 0
NoFrame == 0

\* the streams: every sequence of at most MaxReads results
Streams ==
    UNION {{[i \in 1..n |-> IF i \in good THEN i ELSE Bad] :
                good \in SUBSET (1..n)} : n \in 0..MaxReads}

\* the outbound item of a sender: the two cases of the type switch of the
\* writer, a Message from the odd senders and a Frame from the even ones
KindOf(s) == IF s % 2 = 1 THEN "Message" ELSE "Frame"

VARIABLES
    runPc,          \* position of the orchestrator (newChannel, then run)
    readerPc,       \* position of the reader goroutine
    writerPc,       \* position of the writer goroutine
    evt,            \* the frame the reader has decoded and not yet published
    hasObserver,    \* ch.n.nodeStreamRequest != nil
    rwcIn,          \* read results the raw stream will still deliver
    rwcEof,         \* the peer has closed the stream / the stream has failed
    rwcCloses,      \* number of calls of ch.rwc.Close()
    events,         \* events received by the consumer of n.eventsOut
    writecQ,        \* senders blocked in a send on ch.writec, FIFO
    writecClosed,   \* close(ch.writec) has happened
    sendPc,         \* position of every sender
    inflight,       \* items the writer has taken and not yet written
    written,        \* codec writes that have returned, in order
    terminate,      \* close(ch.terminate) has happened
    ackPending,     \* the hub has received the report and not yet acknowledged
    reports,        \* number of receptions on n.channelClose
    done,           \* number of close(ch.done)
    branches,       \* select branches of run() that have been entered
    raced,          \* both select cases were ready when the select chose
    earlySend,      \* the first send came after ChannelOpen, before the writer ran
    stream,         \* all the read results of the stream, as Init chose them
    quietEnd,       \* the reader ended and no termination was requested before
    blockedAtClose  \* the reader was blocked in a read when ch.rwc.Close() ran

vars == << runPc, readerPc, writerPc, evt, hasObserver, rwcIn, rwcEof,
           rwcCloses, events, writecQ, writecClosed, sendPc, inflight,
           written, terminate, ackPending, reports, done, branches, raced,
           earlySend, stream, quietEnd, blockedAtClose >>

\* what no step of the channel changes, but ch.rwc.Close()
conf == << hasObserver, stream, blockedAtClose >>
readerVars == << readerPc, evt, rwcIn, quietEnd >>
writerVars == << writerPc, inflight, written >>
sendVars == << writecQ, sendPc, earlySend >>
hubVars == << terminate, ackPending, reports >>

\* ---- events ---------------------------------------------------------------
EventChannelOpen == [type |-> "ChannelOpen", frame |-> NoFrame]
EventChannelClose == [type |-> "ChannelClose", frame |-> NoFrame]
EventParseError == [type |-> "ParseError", frame |-> NoFrame]
EventStreamRequested == [type |-> "StreamRequested", frame |-> NoFrame]
EventFrame(f) == [type |-> "Frame", frame |-> f]

\* positions of the receptions of events of type t
Positions(t) == {i \in 1..Len(events) : events[i].type = t}
Count(t) == Cardinality(Positions(t))

\* closed channels of run()
readerDone == readerPc = "done"
writerDone == writerPc = "done"

Init ==
    /\ runPc = "new"
    /\ readerPc = "none"
    /\ writerPc = "none"
    /\ evt = NoFrame
    /\ hasObserver \in BOOLEAN
    /\ rwcIn \in Streams
    /\ rwcEof = FALSE
    /\ rwcCloses = 0
    /\ events = << >>
    /\ writecQ = << >>
    /\ writecClosed = FALSE
    /\ sendPc = [s \in Senders |-> "idle"]
    /\ inflight = << >>
    /\ written = << >>
    /\ terminate = FALSE
    /\ ackPending = FALSE
    /\ reports = 0
    /\ done = 0
    /\ branches = {}
    /\ raced = FALSE
    /\ earlySend = FALSE
    /\ stream = rwcIn
    /\ quietEnd = FALSE
    /\ blockedAtClose = FALSE

\* ---- newChannel -----------------------------------------------------------
\* NewParser succeeds: the channel exists, run() has not started
newChannel ==
    /\ runPc = "new"
    /\ runPc' = "idle"
    /\ UNCHANGED << done, branches, raced >>
    /\ UNCHANGED << readerVars, writerVars, sendVars, hubVars, conf,
                    rwcEof, rwcCloses, events, writecClosed >>

\* mutant: the failed construction closes the raw stream
newChannelErr_ClosesRwc ==
    /\ runPc = "new"
    /\ runPc' = "failed"
    /\ rwcCloses' = rwcCloses + 1
    /\ UNCHANGED << done, branches, raced >>
    /\ UNCHANGED << readerVars, writerVars, sendVars, hubVars, conf,
                    rwcEof, events, writecClosed >>

\* NewParser fails: no channel
newChannelErr ==
    /\ runPc = "new"
    /\ runPc' = "failed"
    /\ UNCHANGED << done, branches, raced >>
    /\ UNCHANGED << readerVars, writerVars, sendVars, hubVars, conf,
                    rwcEof, rwcCloses, events, writecClosed >>

\* ---- Channel.run: the orchestrator -----------------------------------------
\* mutant: the reader starts to read without publishing EventChannelOpen
RunSpawnReader_ReadFirst ==
    /\ runPc = "idle"
    /\ runPc' = "spawnWriter"
    /\ readerPc' = "read"
    /\ UNCHANGED << writerVars, sendVars, hubVars, evt, rwcIn, quietEnd,
                    conf, rwcEof, rwcCloses, events, writecClosed, done,
                    branches, raced >>

\* go func() { ... } of the reader: the goroutine exists and is about to
\* publish EventChannelOpen
RunSpawnReader ==
    /\ runPc = "idle"
    /\ runPc' = "spawnWriter"
    /\ readerPc' = "pubOpen"
    /\ UNCHANGED << writerVars, sendVars, hubVars, evt, rwcIn, quietEnd,
                    conf, rwcEof, rwcCloses, events, writecClosed, done,
                    branches, raced >>

\* go func() { ... } of the writer: the goroutine exists and is about to
\* receive from ch.writec
RunSpawnWriter ==
    /\ runPc = "spawnWriter"
    /\ runPc' = "select"
    /\ writerPc' = "recv"
    /\ UNCHANGED << readerVars, sendVars, hubVars, inflight, written,
                    conf, rwcEof, rwcCloses, events, writecClosed,
                    done, branches, raced >>

\* select, case <-readerDone
RunSelectReaderDone ==
    /\ runPc = "select"
    /\ readerDone
    /\ runPc' = "a_pubClose"
    /\ branches' = branches \cup {"a"}
    /\ raced' = terminate
    /\ UNCHANGED << readerVars, writerVars, sendVars, hubVars, conf,
                    rwcEof, rwcCloses, events, writecClosed, done >>

\* select, case <-ch.terminate
RunSelectTerminate ==
    /\ runPc = "select"
    /\ terminate
    /\ runPc' = "b_pubClose"
    /\ branches' = branches \cup {"b"}
    /\ raced' = readerDone
    /\ UNCHANGED << readerVars, writerVars, sendVars, hubVars, conf,
                    rwcEof, rwcCloses, events, writecClosed, done >>

\* ch.n.eventsOut <- &EventChannelClose{ch}, taken by the consumer
PublishClose(next) ==
    /\ events' = Append(events, EventChannelClose)
    /\ runPc' = next
    /\ UNCHANGED << readerVars, writerVars, sendVars, hubVars, conf,
                    rwcEof, rwcCloses, writecClosed, done, branches, raced >>

\* close(ch.writec): every sender blocked in a send panics, later sends
\* panic at once
CloseWritec(next) ==
    /\ writecClosed' = TRUE
    /\ sendPc' = [s \in Senders |->
                    IF sendPc[s] = "sending" THEN "panic" ELSE sendPc[s]]
    /\ writecQ' = << >>
    /\ runPc' = next
    /\ UNCHANGED << readerVars, writerVars, hubVars, earlySend, conf,
                    rwcEof, rwcCloses, events, done, branches, raced >>

\* <-writerDone
JoinWriter(next) ==
    /\ writerDone
    /\ runPc' = next
    /\ UNCHANGED << readerVars, writerVars, sendVars, hubVars, conf,
                    rwcEof, rwcCloses, events, writecClosed, done, branches,
                    raced >>

\* the reader is blocked in ch.parser.Read(): the stream has nothing to
\* deliver and has neither failed nor been closed
ReadBlocked ==
    readerPc = "read" /\ rwcIn = << >> /\ ~rwcEof /\ rwcCloses = 0

\* ch.rwc.Close()
CloseRwc(next) ==
    /\ rwcCloses' = rwcCloses + 1
    /\ blockedAtClose' = ReadBlocked
    /\ runPc' = next
    /\ UNCHANGED << readerVars, writerVars, sendVars, hubVars, hasObserver,
                    stream, rwcEof, events, writecClosed, done, branches,
                    raced >>

\* mutant: path (a) goes on to the report without publishing
\* EventChannelClose
RunPublishCloseA_NoPublish ==
    /\ runPc = "a_pubClose"
    /\ runPc' = "a_report"
    /\ UNCHANGED << readerVars, writerVars, sendVars, hubVars, conf,
                    rwcEof, rwcCloses, events, writecClosed, done, branches,
                    raced >>

\* path (a), the reader ended first
RunPublishCloseA == runPc = "a_pubClose" /\ PublishClose("a_report")

\* mutant: path (a) waits for the termination signal before it reports
RunReportA_AfterTerminate ==
    /\ runPc = "a_report"
    /\ terminate
    /\ runPc' = "a_waitTerminate"
    /\ reports' = reports + 1
    /\ ackPending' = TRUE
    /\ UNCHANGED << readerVars, writerVars, sendVars, terminate, conf,
                    rwcEof, rwcCloses, events, writecClosed, done, branches,
                    raced >>

\* ch.n.channelClose <- ch, taken by the hub
RunReportA ==
    /\ runPc = "a_report"
    /\ runPc' = "a_waitTerminate"
    /\ reports' = reports + 1
    /\ ackPending' = TRUE
    /\ UNCHANGED << readerVars, writerVars, sendVars, terminate, conf,
                    rwcEof, rwcCloses, events, writecClosed, done, branches,
                    raced >>

\* mutant: path (a) does not wait for the termination signal
RunWaitTerminateA_NoWait ==
    /\ runPc = "a_waitTerminate"
    /\ runPc' = "a_closeWritec"
    /\ UNCHANGED << readerVars, writerVars, sendVars, hubVars, conf,
                    rwcEof, rwcCloses, events, writecClosed, done, branches,
                    raced >>

\* <-ch.terminate
RunWaitTerminateA ==
    /\ runPc = "a_waitTerminate"
    /\ terminate
    /\ runPc' = "a_closeWritec"
    /\ UNCHANGED << readerVars, writerVars, sendVars, hubVars, conf,
                    rwcEof, rwcCloses, events, writecClosed, done, branches,
                    raced >>

RunCloseWritecA == runPc = "a_closeWritec" /\ CloseWritec("a_joinWriter")

\* mutant: path (a) closes the stream without joining the writer
RunJoinWriterA_NoJoin ==
    /\ runPc = "a_joinWriter"
    /\ runPc' = "a_closeRwc"
    /\ UNCHANGED << readerVars, writerVars, sendVars, hubVars, conf,
                    rwcEof, rwcCloses, events, writecClosed, done, branches,
                    raced >>

RunJoinWriterA == runPc = "a_joinWriter" /\ JoinWriter("a_closeRwc")

\* mutant: the select is wrapped in a loop and path (a) does not leave it
RunCloseRwcA_Loop ==
    /\ runPc = "a_closeRwc"
    /\ rwcCloses' = rwcCloses + 1
    /\ runPc' = "select"
    /\ UNCHANGED << readerVars, writerVars, sendVars, hubVars, conf,
                    rwcEof, events, writecClosed, done, branches, raced >>

RunCloseRwcA == runPc = "a_closeRwc" /\ CloseRwc("return")

\* path (b), the termination was requested first
RunPublishCloseB == runPc = "b_pubClose" /\ PublishClose("b_closeWritec")

RunCloseWritecB == runPc = "b_closeWritec" /\ CloseWritec("b_joinWriter")

\* mutant: path (b) closes the stream without joining the writer
RunJoinWriterB_NoJoin ==
    /\ runPc = "b_joinWriter"
    /\ runPc' = "b_closeRwc"
    /\ UNCHANGED << readerVars, writerVars, sendVars, hubVars, conf,
                    rwcEof, rwcCloses, events, writecClosed, done, branches,
                    raced >>

RunJoinWriterB == runPc = "b_joinWriter" /\ JoinWriter("b_closeRwc")

\* mutant: path (b) joins the reader without closing the stream
RunCloseRwcB_NoClose ==
    /\ runPc = "b_closeRwc"
    /\ runPc' = "b_joinReader"
    /\ UNCHANGED << readerVars, writerVars, sendVars, hubVars, conf,
                    rwcEof, rwcCloses, events, writecClosed, done, branches,
                    raced >>

RunCloseRwcB == runPc = "b_closeRwc" /\ CloseRwc("b_joinReader")

\* mutant: path (b) returns without joining the reader
RunJoinReaderB_NoJoin ==
    /\ runPc = "b_joinReader"
    /\ runPc' = "return"
    /\ UNCHANGED << readerVars, writerVars, sendVars, hubVars, conf,
                    rwcEof, rwcCloses, events, writecClosed, done, branches,
                    raced >>

\* <-readerDone
RunJoinReaderB ==
    /\ runPc = "b_joinReader"
    /\ readerDone
    /\ runPc' = "return"
    /\ UNCHANGED << readerVars, writerVars, sendVars, hubVars, conf,
                    rwcEof, rwcCloses, events, writecClosed, done, branches,
                    raced >>

\* run() returns: defer close(ch.done)
RunReturn ==
    /\ runPc = "return"
    /\ runPc' = "done"
    /\ done' = done + 1
    /\ UNCHANGED << readerVars, writerVars, sendVars, hubVars, conf,
                    rwcEof, rwcCloses, events, writecClosed, branches, raced >>

\* ---- Channel.run: the reader goroutine --------------------------------------
\* what changes when the consumer takes the event e the reader publishes
ReaderPublish(e, next) ==
    /\ events' = Append(events, e)
    /\ readerPc' = next
    /\ UNCHANGED << writerVars, sendVars, hubVars, rwcIn, quietEnd, conf,
                    rwcEof, rwcCloses, writecClosed, runPc, done, branches,
                    raced >>

\* ch.n.eventsOut <- &EventChannelOpen{ch}
ReaderPublishOpen ==
    /\ readerPc = "pubOpen"
    /\ ReaderPublish(EventChannelOpen, "read")
    /\ UNCHANGED evt

\* parser.Read has a result: while the stream is open it is the next result
\* of the stream; once the stream is closed the codec may still hold it
ReadHasResult == rwcIn # << >>

\* parser.Read fails with an error that is no *ParserError: the stream is
\* at its end, or it has been closed
ReadIsFatal ==
    \/ rwcIn = << >> /\ (rwcEof \/ rwcCloses > 0)
    \/ rwcIn # << >> /\ rwcCloses > 0

\* mutant: a *ParserError is skipped without an event
ReaderReadParseError_Silent ==
    /\ readerPc = "read"
    /\ ReadHasResult
    /\ Head(rwcIn) = Bad
    /\ rwcIn' = Tail(rwcIn)
    /\ readerPc' = "read"
    /\ UNCHANGED << writerVars, sendVars, hubVars, evt, quietEnd, conf,
                    rwcEof, rwcCloses, events, writecClosed, runPc, done,
                    branches, raced >>

\* frame, err := ch.parser.Read() with err a *ParserError
ReaderReadParseError ==
    /\ readerPc = "read"
    /\ ReadHasResult
    /\ Head(rwcIn) = Bad
    /\ rwcIn' = Tail(rwcIn)
    /\ readerPc' = "pubParseError"
    /\ UNCHANGED << writerVars, sendVars, hubVars, evt, quietEnd, conf,
                    rwcEof, rwcCloses, events, writecClosed, runPc, done,
                    branches, raced >>

\* mutant: the frame is published without calling the observer first
ReaderReadFrame_NoObserver ==
    /\ readerPc = "read"
    /\ ReadHasResult
    /\ Head(rwcIn) # Bad
    /\ rwcIn' = Tail(rwcIn)
    /\ evt' = Head(rwcIn)
    /\ readerPc' = "pubFrame"
    /\ UNCHANGED << writerVars, sendVars, hubVars, quietEnd, conf, rwcEof,
                    rwcCloses, events, writecClosed, runPc, done, branches,
                    raced >>

\* frame, err := ch.parser.Read() with err == nil; evt := &EventFrame{..}
ReaderReadFrame ==
    /\ readerPc = "read"
    /\ ReadHasResult
    /\ Head(rwcIn) # Bad
    /\ rwcIn' = Tail(rwcIn)
    /\ evt' = Head(rwcIn)
    /\ readerPc' = IF hasObserver THEN "observer" ELSE "pubFrame"
    /\ UNCHANGED << writerVars, sendVars, hubVars, quietEnd, conf, rwcEof,
                    rwcCloses, events, writecClosed, runPc, done, branches,
                    raced >>

\* mutant: the reader closes the stream itself when the read fails
ReaderReadFatal_ClosesRwc ==
    /\ readerPc = "read"
    /\ ReadIsFatal
    /\ readerPc' = "done"
    /\ rwcCloses' = rwcCloses + 1
    /\ quietEnd' = ~terminate
    /\ UNCHANGED << writerVars, sendVars, hubVars, evt, rwcIn, conf,
                    rwcEof, events, writecClosed, runPc, done, branches,
                    raced >>

\* frame, err := ch.parser.Read() with any other error: return, and the
\* deferred close(readerDone)
ReaderReadFatal ==
    /\ readerPc = "read"
    /\ ReadIsFatal
    /\ readerPc' = "done"
    /\ quietEnd' = ~terminate
    /\ UNCHANGED << writerVars, sendVars, hubVars, evt, rwcIn, conf,
                    rwcEof, rwcCloses, events, writecClosed, runPc, done,
                    branches, raced >>

\* ch.n.eventsOut <- &EventParseError{err, ch}; continue
ReaderPublishParseError ==
    /\ readerPc = "pubParseError"
    /\ ReaderPublish(EventParseError, "read")
    /\ UNCHANGED evt

\* ch.n.nodeStreamRequest.onEventFrame(evt) publishes EventStreamRequested
\* and returns; the streams of the remote system are requested once
ObserverPublish ==
    /\ readerPc = "observer"
    /\ Count("StreamRequested") = 0
    /\ ReaderPublish(EventStreamRequested, "pubFrame")
    /\ UNCHANGED evt

\* ch.n.nodeStreamRequest.onEventFrame(evt) returns without publishing
ObserverReturn ==
    /\ readerPc = "observer"
    /\ readerPc' = "pubFrame"
    /\ UNCHANGED << writerVars, sendVars, hubVars, evt, rwcIn, quietEnd,
                    conf, rwcEof, rwcCloses, events, writecClosed, runPc,
                    done, branches, raced >>

\* ch.n.eventsOut <- evt
ReaderPublishFrame ==
    /\ readerPc = "pubFrame"
    /\ ReaderPublish(EventFrame(evt), "read")
    /\ evt' = NoFrame

\* ---- Channel.run: the writer goroutine --------------------------------------
\* the codec operation the type switch selects
WriteOp(kind) == IF kind = "Message" THEN "WriteMessage" ELSE "WriteFrame"

\* mutant: ch.writec has a buffer, a send returns while the writer writes
WriterRecv_Buffered ==
    /\ writerPc \in {"recv", "write"}
    /\ ~writecClosed
    /\ writecQ # << >>
    /\ Len(inflight) < 2
    /\ inflight' = Append(inflight, Head(writecQ))
    /\ writecQ' = Tail(writecQ)
    /\ sendPc' = [sendPc EXCEPT ![Head(writecQ).sender] = "returned"]
    /\ writerPc' = "write"
    /\ UNCHANGED << readerVars, hubVars, written, earlySend, conf,
                    rwcEof, rwcCloses, events, writecClosed, runPc, done,
                    branches, raced >>

\* for what := range ch.writec: the writer takes the item of the first
\* blocked sender, whose send returns
WriterRecv ==
    /\ writerPc = "recv"
    /\ ~writecClosed
    /\ writecQ # << >>
    /\ inflight' = Append(inflight, Head(writecQ))
    /\ writecQ' = Tail(writecQ)
    /\ sendPc' = [sendPc EXCEPT ![Head(writecQ).sender] = "returned"]
    /\ writerPc' = "write"
    /\ UNCHANGED << readerVars, hubVars, written, earlySend, conf,
                    rwcEof, rwcCloses, events, writecClosed, runPc, done,
                    branches, raced >>

\* mutant: the type switch has no case for the item, nothing is written
WriterWrite_NoCase ==
    /\ writerPc = "write"
    /\ inflight' = Tail(inflight)
    /\ writerPc' = "recv"
    /\ UNCHANGED << readerVars, sendVars, hubVars, written, conf,
                    rwcEof, rwcCloses, events, writecClosed, runPc, done,
                    branches, raced >>

\* mutant: the writer returns when a write fails
WriterWrite_ExitOnError ==
    /\ writerPc = "write"
    /\ written' = Append(written, [sender |-> Head(inflight).sender,
                                   op |-> WriteOp(Head(inflight).kind),
                                   ok |-> ~rwcEof])
    /\ inflight' = Tail(inflight)
    /\ writerPc' = (IF rwcEof THEN "done" ELSE "recv")
    /\ UNCHANGED << readerVars, sendVars, hubVars, conf, rwcEof,
                    rwcCloses, events, writecClosed, runPc, done, branches,
                    raced >>

\* ch.parser.WriteMessage(wh) / ch.parser.WriteFrame(wh) returns; it fails
\* when the stream has failed, and its error is dropped
WriterWrite ==
    /\ writerPc = "write"
    /\ written' = Append(written, [sender |-> Head(inflight).sender,
                                   op |-> WriteOp(Head(inflight).kind),
                                   ok |-> ~rwcEof])
    /\ inflight' = Tail(inflight)
    /\ writerPc' = "recv"
    /\ UNCHANGED << readerVars, sendVars, hubVars, conf, rwcEof,
                    rwcCloses, events, writecClosed, runPc, done, branches,
                    raced >>

\* the range loop ends on the closed ch.writec: return, and the deferred
\* close(writerDone)
WriterExit ==
    /\ writerPc = "recv"
    /\ writecClosed
    /\ writerPc' = "done"
    /\ UNCHANGED << readerVars, sendVars, hubVars, inflight, written,
                    conf, rwcEof, rwcCloses, events, writecClosed,
                    runPc, done, branches, raced >>

\* ---- the environment ---------------------------------------------------------
\* the channel exists
Constructed == runPc \notin {"new", "failed"}

\* a caller sends an item on ch.writec: it blocks until the writer takes
\* the item; on the closed ch.writec the send panics.  The callers are
\* numbered in the order in which they send.
Send(s) ==
    /\ Constructed
    /\ sendPc[s] = "idle"
    /\ \A t \in Senders : t < s => sendPc[t] # "idle"
    /\ IF writecClosed
         THEN /\ sendPc' = [sendPc EXCEPT ![s] = "panic"]
              /\ UNCHANGED << writecQ, earlySend >>
         ELSE /\ sendPc' = [sendPc EXCEPT ![s] = "sending"]
              /\ writecQ' = Append(writecQ, [sender |-> s, kind |-> KindOf(s)])
              /\ earlySend' =
                    IF s = 1 THEN Count("ChannelOpen") > 0 /\ writerPc = "none"
                    ELSE earlySend
    /\ UNCHANGED << readerVars, writerVars, hubVars, conf, rwcEof,
                    rwcCloses, events, writecClosed, runPc, done, branches,
                    raced >>

\* the hub requests the termination of the channel: close(ch.terminate)
HubTerminate ==
    /\ Constructed
    /\ runPc # "done"
    /\ ~terminate
    /\ reports = 0
    /\ terminate' = TRUE
    /\ UNCHANGED << readerVars, writerVars, sendVars, ackPending, reports,
                    conf, rwcEof, rwcCloses, events, writecClosed,
                    runPc, done, branches, raced >>

\* the hub acknowledges the report of the channel: close(ch.terminate),
\* unless it has requested the termination already
HubAck ==
    /\ ackPending
    /\ ackPending' = FALSE
    /\ terminate' = TRUE
    /\ UNCHANGED << readerVars, writerVars, sendVars, reports, conf,
                    rwcEof, rwcCloses, events, writecClosed, runPc, done,
                    branches, raced >>

\* the peer closes the stream, or the stream fails: once the results
\* already in the stream are read, reads fail
PeerClose ==
    /\ Constructed
    /\ ~rwcEof
    /\ rwcCloses = 0
    /\ rwcEof' = TRUE
    /\ UNCHANGED << readerVars, writerVars, sendVars, hubVars, conf,
                    rwcCloses, events, writecClosed, runPc, done, branches,
                    raced >>

\* ---- specification -----------------------------------------------------------
Reader ==
    \/ ReaderPublishOpen
    \/ ReaderReadParseError
    \/ ReaderReadFrame
    \/ ReaderReadFatal
    \/ ReaderPublishParseError
    \/ ObserverPublish
    \/ ObserverReturn
    \/ ReaderPublishFrame

Writer ==
    \/ WriterRecv
    \/ WriterWrite
    \/ WriterExit

Run ==
    \/ RunSpawnReader
    \/ RunSpawnWriter
    \/ RunSelectReaderDone
    \/ RunSelectTerminate
    \/ RunPublishCloseA
    \/ RunReportA
    \/ RunWaitTerminateA
    \/ RunCloseWritecA
    \/ RunJoinWriterA
    \/ RunCloseRwcA
    \/ RunPublishCloseB
    \/ RunCloseWritecB
    \/ RunJoinWriterB
    \/ RunCloseRwcB
    \/ RunJoinReaderB
    \/ RunReturn

Next ==
    \/ newChannel
    \/ newChannelErr
    \/ Run
    \/ Reader
    \/ Writer
    \/ \E s \in Senders : Send(s)
    \/ HubTerminate
    \/ HubAck
    \/ PeerClose

Spec == Init /\ [][Next]_vars

\* Scheduling: the goroutines of the channel keep running, the consumer of
\* the bus keeps taking events (its receptions are the publish steps), the
\* hub keeps receiving reports (RunReportA) and acknowledges them.  Nothing
\* forces a caller to send, the hub to request the termination or the
\* stream to fail.
Fairness ==
    /\ WF_vars(Run)
    /\ WF_vars(Reader)
    /\ WF_vars(Writer)
    /\ WF_vars(HubAck)

\* the liveness properties are checked on the shorter streams
LiveInit == Init /\ Len(rwcIn) <= MaxLiveReads

LiveSpec == LiveInit /\ [][Next]_vars /\ Fairness

\* Scheduling without the hub: the goroutines of the channel keep running
\* and the consumer of the bus keeps taking events, but the hub neither
\* receives a report (RunReportA is its reception) nor acknowledges one.
HubFreeFairness ==
    /\ WF_vars(Run /\ runPc # "a_report")
    /\ WF_vars(Reader)
    /\ WF_vars(Writer)

HubFreeSpec == LiveInit /\ [][Next]_vars /\ HubFreeFairness

\* ---- claims ------------------------------------------------------------------
DataTypes == {"Frame", "ParseError"}

\* the channel is Closed: run() has returned and ch.done is closed
Closed == runPc = "done"

\* C1: the events received from the channel contain exactly one ChannelOpen,
\* and it is received strictly before any Frame, ParseError or ChannelClose
\* of the channel, in every interleaving, also when the termination is
\* requested before the ChannelOpen has been accepted.
C1_OneOpenBeforeAll ==
    /\ Count("ChannelOpen") <= 1
    /\ Closed => Count("ChannelOpen") = 1
    /\ \A i \in 1..Len(events) :
        events[i].type \in DataTypes \cup {"ChannelClose"}
            => \E j \in 1..(i - 1) : events[j].type = "ChannelOpen"

\* C2: on both shutdown paths the events received from the channel contain
\* exactly one ChannelClose, and no Frame or ParseError is received after
\* it: what is received after the ChannelOpen (claim C1) is
\* (Frame | ParseError)* ChannelClose.
C2_OneCloseNothingAfter ==
    /\ Count("ChannelClose") <= 1
    /\ Closed => Count("ChannelClose") = 1
    /\ \A i \in Positions("ChannelClose") :
        \A j \in (i + 1)..Len(events) : events[j].type \notin DataTypes

\* C3: when the termination request and the end of the reader are ready
\* together, exactly one branch of the select runs, ChannelClose is
\* published once and ch.done is closed once, whichever case is chosen.
C3_OneBranchOneCloseOneDone ==
    /\ Cardinality(branches) <= 1
    /\ Count("ChannelClose") <= 1
    /\ done <= 1
    /\ Closed => /\ Cardinality(branches) = 1
                 /\ Count("ChannelClose") = 1
                 /\ done = 1

\* both cases were ready at the select, and the channel is Closed
C3_Witness == raced /\ Closed

\* the channel is Running: run() has not chosen a branch of the select
Running == runPc \in {"idle", "spawnWriter", "select"}

\* C4: ch.rwc.Close() is called at most once, exactly once by the time the
\* channel is Closed, and only inside a branch of the select, never while
\* the channel is Running.
C4_RwcClosedOnceAtShutdown ==
    /\ rwcCloses <= 1
    /\ Closed => rwcCloses = 1
    /\ Running => rwcCloses = 0
    /\ rwcCloses > 0 => branches # {}

\* the self-detected closure has closed the stream and the channel is Closed
C4_Witness == Closed /\ rwcCloses = 1 /\ branches = {"a"}

\* C5: ch.done is closed only when the reader has exited, the writer has
\* exited and the stream is closed.
C5_DoneAfterTasksAndClose ==
    done > 0 => readerDone /\ writerDone /\ rwcCloses > 0

\* ch.done is closed on the termination path after events were read
C5_Witness ==
    done = 1 /\ branches = {"b"} /\ Count("Frame") + Count("ParseError") > 0

\* C6: when the stream is closed no codec write is in progress and none is
\* started later: ch.rwc.Close() is called after the writer has exited.
C6_NoWriteAtOrAfterClose ==
    rwcCloses > 0 => writerDone /\ inflight = << >>

\* the stream is closed after the writer has written an item
C6_Witness == rwcCloses = 1 /\ written # << >>

\* C7: if the stream fails while the reader is blocked in a read and no
\* termination was requested before, then, with fair scheduling and a hub
\* that consumes events, receives the report and acknowledges it, the
\* channel becomes Closed, with ch.rwc.Close() called exactly once.
C7_FailedReadLeadsToClosed ==
    (readerPc = "read" /\ rwcIn = << >> /\ rwcEof /\ ~terminate)
        ~> (Closed /\ rwcCloses = 1)

\* the channel is Closed by the self-detected closure, which the hub
\* acknowledged, without a termination request before the select
C7_Witness ==
    /\ Closed
    /\ rwcCloses = 1
    /\ rwcEof
    /\ branches = {"a"}
    /\ ~raced
    /\ reports = 1

\* C8: a send issued after the channel is Closed, or pending or issued
\* while it is Closing, returns an error to its caller; it neither blocks
\* for ever nor panics.
C8_SendOnClosedReturnsError ==
    \A s \in Senders : sendPc[s] # "panic"

\* the item of sender s has been written through the codec
Written(s) == \E i \in 1..Len(written) : written[i].sender = s

\* C9: an item sent in reaction to ChannelOpen is not lost: as long as no
\* shutdown begins, it is eventually taken by the writer and written, also
\* when ChannelOpen was received before the writer started.
C9_ReactiveSendWritten ==
    \A s \in Senders :
        (sendPc[s] = "sending" /\ Count("ChannelOpen") > 0)
            ~> (Written(s) \/ branches # {})

\* the item of the first send, issued after ChannelOpen was received and
\* before the writer started, has been written, and no shutdown has begun
C9_Witness == earlySend /\ Written(1) /\ branches = {}

\* C10: ch.writec is a rendezvous: a send returns only in the step in which
\* the writer takes its item, at most one item is taken and not yet
\* written, and while the writer is in a codec write no send returns.
C10_Rendezvous ==
    [][/\ Len(inflight') <= 1
       /\ \A s \in Senders :
            (sendPc[s] # "returned" /\ sendPc'[s] = "returned")
                => /\ sendPc[s] = "sending"
                   /\ writerPc = "recv"
                   /\ writerPc' = "write"
                   /\ inflight' = << [sender |-> s, kind |-> KindOf(s)] >>
       /\ writerPc = "write"
            => \A s \in Senders :
                 sendPc[s] = "sending" => sendPc'[s] # "returned"]_vars

\* the writer is in a codec write with the item of one sender while another
\* sender is blocked
C10_Witness ==
    /\ writerPc = "write"
    /\ Len(inflight) = 1
    /\ writecQ # << >>
    /\ \E s \in Senders : sendPc[s] = "returned"

\* the events of the pattern Open (Frame | ParseError)* Close
IsLifecycleEvent(e) == e.type # "StreamRequested"

\* the event the reader publishes for a read result
EventOf(r) == IF r = Bad THEN EventParseError ELSE EventFrame(r)

\* C11: when the stream delivers decode errors and frames and then fails,
\* and no termination was requested before the reader ended, the events of
\* the channel are ChannelOpen, then one event per read result in read
\* order (ParseError for a decode error, Frame with that frame for a
\* frame), then ChannelClose, and no event for the fatal error.
C11_EventsFollowReads ==
    quietEnd =>
        LET seen == SelectSeq(events, IsLifecycleEvent)
            expected == << EventChannelOpen >>
                            \o [i \in 1..Len(stream) |-> EventOf(stream[i])]
        IN  /\ seen \in {expected, Append(expected, EventChannelClose)}
            /\ Closed => seen = Append(expected, EventChannelClose)

\* a stream with a decode error and a frame was read to its end and the
\* channel is Closed
C11_Witness ==
    /\ quietEnd
    /\ Closed
    /\ Count("ParseError") > 0
    /\ Count("Frame") > 0

\* C12: on the self-detected closure ChannelClose is published, then the
\* channel is pushed on n.channelClose, then run() blocks until the
\* termination signal, and only then ch.writec is closed, the writer joined
\* and the stream closed: on this path neither ch.writec nor the stream is
\* closed before the hub took the report and signalled on ch.terminate.
C12_PathAOrder ==
    "a" \in branches =>
        /\ reports > 0 => Count("ChannelClose") = 1
        /\ runPc \in {"a_pubClose", "a_report"} => reports = 0
        /\ runPc = "a_waitTerminate" => reports = 1
        /\ (writecClosed \/ rwcCloses > 0) => reports = 1 /\ terminate
        /\ rwcCloses > 0 => writecClosed /\ writerDone

\* path (a) is about to close the stream, after the hub acknowledged the
\* report and the writer was joined
C12_Witness ==
    /\ runPc = "a_closeRwc"
    /\ reports = 1
    /\ ~ackPending
    /\ writecClosed
    /\ writerDone

\* the order of the steps of path (b), as a predicate of one state
PathBOrder ==
    "b" \in branches =>
        /\ writecClosed => Count("ChannelClose") = 1
        /\ rwcCloses > 0 => writecClosed /\ writerDone
        /\ runPc = "b_closeRwc" => rwcCloses = 0
        /\ runPc \in {"b_joinReader", "return", "done"} => rwcCloses = 1
        /\ runPc \in {"return", "done"} => readerDone

\* C13: on the requested closure ChannelClose is published, ch.writec is
\* closed, the writer joined, the stream closed and then the reader joined;
\* a reader that was blocked in a read when the stream was closed takes the
\* fatal exit and no further event is published.
C13_PathBOrder ==
    [][/\ PathBOrder'
       /\ (blockedAtClose /\ "b" \in branches)
            => /\ events' = events
               /\ readerPc' \in {readerPc, "done"}]_vars

\* the reader was blocked in a read when path (b) closed the stream, and
\* the channel is Closed
C13_Witness == blockedAtClose /\ Closed /\ branches = {"b"}

\* reads of the reader that returned a frame or a *ParserError
ReadsReturned == Len(stream) - Len(rwcIn)

\* reads the reader has started: those, and the read it is in or that
\* ended it
ReadsStarted ==
    ReadsReturned + (IF readerPc \in {"read", "done"} THEN 1 ELSE 0)

\* Frame and ParseError events the consumer has accepted
DataAccepted == Count("Frame") + Count("ParseError")

\* C14: the reader reads nothing before its ChannelOpen is accepted, and it
\* starts the next read only after the event of the previous read result
\* is accepted: the reads started exceed the accepted Frame and ParseError
\* events by at most one, and the only event not accepted is the one the
\* blocked reader holds.
C14_ReadsFollowAcceptance ==
    /\ Count("ChannelOpen") = 0
         => rwcIn = stream /\ readerPc \in {"none", "pubOpen"}
    /\ ReadsStarted - DataAccepted \in {0, 1}
    /\ ReadsReturned - DataAccepted =
         (IF readerPc \in {"pubParseError", "observer", "pubFrame"}
          THEN 1 ELSE 0)

\* the consumer has not accepted the Frame event: the reader holds it and
\* does not read the result the stream has for it
C14_Witness ==
    /\ readerPc = "pubFrame"
    /\ rwcIn # << >>
    /\ Count("ChannelOpen") = 1
    /\ ReadsReturned = DataAccepted + 1

\* C15: with an observer, every decoded frame is passed to the observer
\* before its Frame event is published: what the observer publishes for
\* the frame is received before the Frame event, and the reader reads
\* nothing until the observer has returned; without an observer the Frame
\* event is published directly.
C15_ObserverBeforeFrame ==
    [][/\ (readerPc # "pubFrame" /\ readerPc' = "pubFrame")
            => readerPc = (IF hasObserver THEN "observer" ELSE "read")
       /\ readerPc' = "observer" => hasObserver
       /\ readerPc = "observer" => rwcIn' = rwcIn
       /\ Count("StreamRequested")' # Count("StreamRequested")
            => /\ readerPc = "observer"
               /\ events' = Append(events, EventStreamRequested)
               /\ evt # NoFrame
               /\ evt' = evt
               /\ \A i \in 1..Len(events) : events[i] # EventFrame(evt)
       /\ Count("Frame")' # Count("Frame")
            => /\ readerPc = "pubFrame"
               /\ events' = Append(events, EventFrame(evt))]_vars

\* the consumer received the StreamRequested of the observer and then the
\* Frame event of the frame
C15_Witness ==
    \E i \in Positions("StreamRequested") :
        i < Len(events) /\ events[i + 1].type = "Frame"

\* the senders of the items of a sequence of items or of writes
SendersOf(q) == {q[i].sender : i \in 1..Len(q)}

\* the senders whose send has returned: the items the writer accepted
Accepted == {s \in Senders : sendPc[s] = "returned"}

\* every accepted item is with the writer or written, one item at a time
\* and no item twice
OnceEach ==
    /\ Len(inflight) <= 1
    /\ Len(written) = Cardinality(SendersOf(written))
    /\ SendersOf(written) \cap SendersOf(inflight) = {}
    /\ Accepted = SendersOf(written) \cup SendersOf(inflight)

\* C16: the writer writes the items one at a time in the order in which it
\* accepted them, each accepted item once and with the operation of its
\* type; a failed write does not end the loop, which ends only on the
\* closed outbound queue.
C16_WriterInOrder ==
    [][/\ OnceEach'
       /\ Accepted' # Accepted
            => /\ inflight = << >>
               /\ written' = written
               /\ Len(inflight') = 1
               /\ Accepted' = Accepted \cup {inflight'[1].sender}
               /\ inflight'[1].kind = KindOf(inflight'[1].sender)
       /\ written' # written
            => /\ inflight # << >>
               /\ inflight' = Tail(inflight)
               /\ Len(written') = Len(written) + 1
               /\ SubSeq(written', 1, Len(written)) = written
               /\ written'[Len(written')].sender = Head(inflight).sender
               /\ written'[Len(written')].op =
                    (IF Head(inflight).kind = "Message"
                       THEN "WriteMessage" ELSE "WriteFrame")
               /\ writerPc' = "recv"
       /\ (writerPc # "done" /\ writerPc' = "done")
            => writecClosed /\ inflight = << >>]_vars

\* a write failed and the writer wrote the next item, of the other type
C16_Witness ==
    /\ Len(written) >= 2
    /\ ~written[1].ok
    /\ written[1].op # written[2].op
    /\ written[1].sender < written[2].sender

\* C17: a construction that fails returns no channel: no reader or writer
\* task is started, no event is published, and nothing is read from,
\* written to or closed on the raw stream.
C17_FailedConstructionIsInert ==
    runPc = "failed" =>
        /\ readerPc = "none"
        /\ writerPc = "none"
        /\ events = << >>
        /\ rwcIn = stream
        /\ inflight = << >>
        /\ written = << >>
        /\ rwcCloses = 0
        /\ ~writecClosed
        /\ done = 0
        /\ branches = {}
        /\ reports = 0

\* the construction failed while the raw stream had input to read
C17_Witness == runPc = "failed" /\ stream # << >>

\* C18: once the hub has requested the termination (ch.terminate closed
\* and no report taken), the channel reaches Closed with no further action
\* of the hub, also when the reader has ended at the same time.
C18_TerminationLeadsToClosed == (terminate /\ reports = 0) ~> Closed

\* C19: the channel pushes itself on the report queue of the hub at most
\* once, only on path (a) and only after the consumer received its
\* ChannelClose; on path (b) it pushes no report.
C19_OneReportOnPathA ==
    /\ reports <= 1
    /\ reports = 1 =>
         /\ branches = {"a"}
         /\ Count("ChannelClose") = 1
         /\ runPc \in {"a_waitTerminate", "a_closeWritec", "a_joinWriter",
                       "a_closeRwc", "return", "done"}
    /\ "b" \in branches => reports = 0 /\ ~ackPending

\* path (a) ran to the end with its one report
C19_Witness == reports = 1 /\ Closed /\ raced

\* C20: no accepted item is dropped at shutdown: on both paths, once the
\* raw stream is closed or ch.done is closed, the codec write of every
\* item whose send returned has been issued and has returned.
C20_NoAcceptedItemDropped ==
    (rwcCloses > 0 \/ done > 0) =>
        \A s \in Senders :
            sendPc[s] = "returned" =>
                /\ Written(s)
                /\ \A i \in 1..Len(inflight) : inflight[i].sender # s

\* the self-detected closure ended with every sender's item written
C20_Witness ==
    /\ Closed
    /\ branches = {"a"}
    /\ Accepted = Senders
    /\ \A s \in Senders : Written(s)

====
